---- MODULE Spec2Model ----
(***************************************************************************)
(* Model of the variant assembly of EtoXPlatform                           *)
(* (backend/variant_generator.py, the /variants/generate endpoint of       *)
(* backend/main.py and the variants schema of                              *)
(* backend/fix_variants_schema.py).                                        *)
(*                                                                         *)
(* The store is the committed content of the tables exercises, variants    *)
(* and variant_exercises.  One generation request runs on one connection;  *)
(* every write of VariantGenerator is followed by its own conn.commit(),   *)
(* so each write action below changes the committed store directly.        *)
(***************************************************************************)
EXTENDS Integers, Sequences, FiniteSets, TLC

\* ------------------------------------------------------------------------
\* Bounds of the model
\* ------------------------------------------------------------------------

\* largest number of exercises in an enumerated pool
MaxPool == 4

\* the largest pool of a request that is followed to its end under fairness
MaxRunPool == 3

\* the largest pool that two concurrent requests share
MaxConcPool == 2

\* the variant_exercises endpoints: the largest pool, the longest list of
\* exercise ids in a request body, and the largest order_index followed
MaxCrudPool == 2
MaxCrudList == 1
MaxOrderIndex == 2

\* two add_exercises_to_variant requests at once: the largest pool and the
\* longest list of exercise ids
MaxAddPool == 3
MaxAddList == 2

\* the tag paths: the largest pool and the longest list of tags of one
\* exercise
MaxTagPool == 1
MaxTagList == 1

\* the connection pool: the requests of a run and the connections the pool
\* may open (max_size of database.py is 10; the model opens fewer)
MaxReq == 2
MaxConn == 2

\* the largest pool of the delete endpoints
MaxDelPool == 2

\* the largest pool of the selector calls on single section definitions
MaxSectPool == 2

\* ------------------------------------------------------------------------
\* Values
\* ------------------------------------------------------------------------

\* SQL NULL / Python None in a text column
NULL == "NULL"

\* SQL NULL in an INTEGER column (difficulty, total_points)
NullInt == -1

\* dict.get(key, default) on a subject dictionary
Get(d, key, default) == IF key \in DOMAIN d THEN d[key] ELSE default

\* ExamStructure.get_bacalaureat_structure().subjects
BacalaureatSubjects ==
    << [name |-> "Subiectul I", item_type |-> "subiect_1", count |-> 6,
        has_variants |-> FALSE, points_each |-> 5],
       [name |-> "Subiectul II", item_type |-> "subiect_2", count |-> 2,
        has_variants |-> TRUE, variants_per_problem |-> 3, points_each |-> 15],
       [name |-> "Subiectul III", item_type |-> "subiect_3", count |-> 2,
        has_variants |-> TRUE, variants_per_problem |-> 3, points_each |-> 15] >>

\* ExamStructure.get_evaluare_nationala_structure().subjects
EvaluareNationalaSubjects ==
    << [name |-> "Subiectul I", item_type |-> "subiect_1", count |-> 6,
        has_variants |-> FALSE, points_each |-> 5],
       [name |-> "Subiectul II", item_type |-> "subiect_2", count |-> 3,
        has_variants |-> FALSE, points_each |-> 10] >>

\* structure.subjects when no template was resolved
NoSubjects == << >>

\* the exam types a request may name; "unknown_type" has no template
ExamTypes == {"bacalaureat", "evaluare_nationala", "unknown_type"}

\* a resolution that falls back to a template for an unknown exam type
ResolveTemplateDefaulting(exam_type) ==
    IF exam_type = "bacalaureat"
    THEN [ok |-> TRUE, subjects |-> BacalaureatSubjects]
    ELSE [ok |-> TRUE, subjects |-> EvaluareNationalaSubjects]

\* step 1 of generate_variant: the structure, or ValueError (ok = FALSE)
ResolveTemplate(exam_type) ==
    IF exam_type = "bacalaureat"
    THEN [ok |-> TRUE, subjects |-> BacalaureatSubjects]
    ELSE IF exam_type = "evaluare_nationala"
    THEN [ok |-> TRUE, subjects |-> EvaluareNationalaSubjects]
    ELSE [ok |-> FALSE, subjects |-> NoSubjects]

\* ------------------------------------------------------------------------
\* The exercise pool
\* ------------------------------------------------------------------------

\* the kinds of exercise rows the pools are built from
KindS1   == [item_type |-> "subiect_1", exam_type |-> NULL,
             difficulty |-> 5, status |-> "READY"]
KindS2   == [item_type |-> "subiect_2", exam_type |-> NULL,
             difficulty |-> 5, status |-> "READY"]
KindGen  == [item_type |-> "exercitiu", exam_type |-> NULL,
             difficulty |-> 5, status |-> "READY"]
KindArch == [item_type |-> "exercitiu", exam_type |-> NULL,
             difficulty |-> 5, status |-> "ARCHIVED"]
KindS3   == [item_type |-> "subiect_3", exam_type |-> "bacalaureat",
             difficulty |-> 3, status |-> NULL]
KindNull == [item_type |-> NULL, exam_type |-> "evaluare_nationala",
             difficulty |-> 7, status |-> "DRAFT"]
KindHard == [item_type |-> "subiect_1", exam_type |-> NULL,
             difficulty |-> 8, status |-> "READY"]
KindNoDiff == [item_type |-> "subiect_2", exam_type |-> NULL,
               difficulty |-> NullInt, status |-> "READY"]

\* the kinds of the enumerated pools of the generation runs
GenKinds == << KindS1, KindGen, KindArch >>

\* the kinds of the pools that can fill a template completely
FullKinds == << KindS1, KindS2, KindGen >>

\* the kinds of the pools the selector alone is run on
SelKinds == << KindS1, KindS2, KindGen, KindArch,
               KindS3, KindNull, KindHard, KindNoDiff >>

\* nondecreasing sequences of n kind numbers in lo..k (exercise ids are
\* opaque, so one ordering of each multiset of kinds is enough)
RECURSIVE KindSeqs(_, _, _)
KindSeqs(n, lo, k) ==
    IF n = 0 THEN { << >> }
    ELSE UNION { { <<j>> \o t : t \in KindSeqs(n - 1, j, k) } : j \in lo..k }

\* the exercises table for a sequence of kind numbers: id i has kind s[i]
PoolOf(kinds, s) == [i \in 1..Len(s) |-> kinds[s[i]]]

\* every pool of at most MaxPool exercises of the kinds in `kinds`
SmallPools(kinds) ==
    { PoolOf(kinds, s) :
        s \in UNION { KindSeqs(n, 1, Len(kinds)) : n \in 0..MaxPool } }

\* every pool of at most m exercises of the kinds in `kinds`
PoolsUpTo(kinds, m) ==
    { PoolOf(kinds, s) :
        s \in UNION { KindSeqs(n, 1, Len(kinds)) : n \in 0..m } }

\* n copies of kind number j
Copies(n, j) == [i \in 1..n |-> j]

\* pools that can fill evaluare_nationala completely: 9 exercises, each one
\* within the difficulty range, not archived, and matching the item_type
\* predicate of a section
FullPools ==
    LET c1 == EvaluareNationalaSubjects[1].count
        c2 == EvaluareNationalaSubjects[2].count
    IN  { PoolOf(FullKinds, Copies(c1, 1) \o Copies(c2, 2)),
          PoolOf(FullKinds, Copies(c1 - 1, 1) \o Copies(c2, 2) \o Copies(1, 3)) }

\* ------------------------------------------------------------------------
\* The selector (VariantGenerator._select_exercises_for_subject)
\* ------------------------------------------------------------------------

\* count_needed without the has_variants multiplication
CountNeededFlat(subject) == subject.count

\* count_needed: the LIMIT of both queries
CountNeeded(subject) ==
    IF Get(subject, "has_variants", FALSE)
    THEN subject.count * Get(subject, "variants_per_problem", 3)
    ELSE subject.count

\* difficulty >= min AND difficulty <= max (a NULL difficulty is not TRUE)
InDifficultyRange(e, range) ==
    /\ e.difficulty # NullInt
    /\ e.difficulty >= range[1]
    /\ e.difficulty <= range[2]

\* (status != 'ARCHIVED' OR status IS NULL)
NotArchived(e) == e.status # "ARCHIVED" \/ e.status = NULL

\* a first query without the item_type condition
StrictMatchAnyItemType(e, item_type, exam_type, range) ==
    /\ InDifficultyRange(e, range)
    /\ NotArchived(e)
    /\ (exam_type # "" =>
          (e.exam_type = exam_type \/ e.exam_type = NULL))

\* the WHERE clause of the first query
StrictMatch(e, item_type, exam_type, range) ==
    /\ InDifficultyRange(e, range)
    /\ NotArchived(e)
    /\ (e.item_type = item_type \/ e.item_type = "exercitiu"
        \/ e.item_type = NULL)
    /\ (exam_type # "" =>
          (e.exam_type = exam_type \/ e.exam_type = NULL))

\* the WHERE clause of the relaxed query
RelaxedMatch(e, range) ==
    /\ InDifficultyRange(e, range)
    /\ NotArchived(e)

Min(a, b) == IF a <= b THEN a ELSE b

\* sequences of length n over S, repetitions allowed
RECURSIVE SampleWithReplacement(_, _)
SampleWithReplacement(S, n) ==
    IF n = 0 \/ S = {} THEN { << >> }
    ELSE UNION { { <<x>> \o t : t \in SampleWithReplacement(S, n - 1) } :
                 x \in S }

\* injective sequences of length n over S
RECURSIVE Arrangements(_, _)
Arrangements(S, n) ==
    IF n = 0 THEN { << >> }
    ELSE UNION { { <<x>> \o t : t \in Arrangements(S \ {x}, n - 1) } :
                 x \in S }

\* a query that raises when nothing matches: it has no result
SampleNoneWhenEmpty(S, n) ==
    IF S = {} THEN {} ELSE Arrangements(S, Min(n, Cardinality(S)))

\* SELECT id FROM exercises WHERE ... ORDER BY RANDOM() LIMIT n: the
\* possible results for the set S of matching ids
Sample(S, n) == Arrangements(S, Min(n, Cardinality(S)))

\* a selector that keeps the result of the first query, however short
SelectExercisesStrictOnly(pool, subject, exam_type, range) ==
    Sample({ i \in DOMAIN pool :
               StrictMatch(pool[i], subject.item_type, exam_type, range) },
           CountNeeded(subject))

\* the possible return values of _select_exercises_for_subject
SelectExercisesForSubject(pool, subject, exam_type, range) ==
    LET count_n == CountNeeded(subject)
        strict  == { i \in DOMAIN pool :
                       StrictMatch(pool[i], subject.item_type, exam_type, range) }
        relaxed == { i \in DOMAIN pool : RelaxedMatch(pool[i], range) }
    IN  IF Min(count_n, Cardinality(strict)) < count_n
        THEN Sample(relaxed, count_n)
        ELSE Sample(strict, count_n)

\* ------------------------------------------------------------------------
\* The store and the writes of VariantGenerator
\* ------------------------------------------------------------------------

\* a row that names the first section of the template, whatever section
\* the exercise was selected for
NewRowFirstSection(v, e, o, s) ==
    [variant_id |-> v, exercise_id |-> e, order_index |-> o,
     section_name |-> "Subiectul I"]

\* the VALUES of the INSERT of _add_exercise_to_variant
NewRow(v, e, o, s) ==
    [variant_id |-> v, exercise_id |-> e, order_index |-> o,
     section_name |-> s]

\* INSERT INTO variant_exercises with no ON CONFLICT clause
InsertVariantExerciseNoArbiter(table, row) ==
    IF \E r \in table : /\ r.variant_id = row.variant_id
                        /\ r.order_index = row.order_index
    THEN [ok |-> FALSE, table |-> table]
    ELSE [ok |-> TRUE, table |-> table \cup {row}]

\* INSERT INTO variant_exercises ... ON CONFLICT (variant_id, exercise_id)
\* DO NOTHING, under UNIQUE(variant_id, exercise_id) and
\* UNIQUE(variant_id, order_index); ok = FALSE is a unique violation
InsertVariantExercise(table, row) ==
    IF \E r \in table : /\ r.variant_id = row.variant_id
                        /\ r.exercise_id = row.exercise_id
    THEN [ok |-> TRUE, table |-> table]
    ELSE IF \E r \in table : /\ r.variant_id = row.variant_id
                             /\ r.order_index = row.order_index
    THEN [ok |-> FALSE, table |-> table]
    ELSE [ok |-> TRUE, table |-> table \cup {row}]

\* gen_random_uuid(): an id no row of the table has
NewId(table) ==
    CHOOSE n \in 1..(Cardinality(table) + 1) : \A r \in table : r.id # n

RECURSIVE SumOver(_, _)
SumOver(f, n) == IF n = 0 THEN 0 ELSE f[n] + SumOver(f, n - 1)

\* a section's points when every exercise slot is counted
SubjectPointsPerSlot(subject) == subject.points_each * CountNeeded(subject)

\* s["points_each"] * s["count"], the term of the sum of step 4
SubjectPoints(subject) == subject.points_each * subject.count

\* sum(s["points_each"] * s["count"] for s in structure.subjects)
TotalPoints(subjects) ==
    SumOver([i \in DOMAIN subjects |-> SubjectPoints(subjects[i])],
            Len(subjects))

\* the "structure" list of the returned summary
SummaryStructure(subjects) ==
    [i \in DOMAIN subjects |->
       [subject   |-> subjects[i].name,
        exercises |-> subjects[i].count *
                        (IF Get(subjects[i], "has_variants", FALSE)
                         THEN Get(subjects[i], "variants_per_problem", 1)
                         ELSE 1)]]

\* the rows of variant_exercises of one variant
RowsOf(table, v) == { r \in table : r.variant_id = v }

VARIABLES
    exercises,         \* table exercises: id -> row
    variants,          \* table variants: set of rows
    variant_exercises, \* table variant_exercises: set of rows
    request,           \* the form fields of POST /variants/generate
    pc,                \* position of the request in generate_variant
    structure,         \* structure.subjects
    variant_id,        \* id returned by _create_variant_entry
    subject_idx,       \* position of `for subject in structure.subjects`
    count_needed,      \* LIMIT of the last selector call
    results,           \* list returned by the last selector call
    idx,               \* position of `for exercise_id in exercises`
    all_exercise_ids,  \* len(all_exercise_ids), its only use
    order_index,       \* the running order_index
    total_points,      \* total_points of step 4
    response,          \* the HTTP response of the endpoint
    tags,              \* table tags: set of rows
    exercise_tags,     \* table exercise_tags: set of rows
    reply,             \* the HTTP response of the last variant_exercises
                       \* endpoint (add, remove, reorder)
    other,             \* the locals of a second generate_variant run, on
                       \* another connection
    calls,              \* the add_exercises_to_variant requests in progress,
    conn_pool          \* conn_pool of database.py: the idle connections
                       \* one per connection

vars == << exercises, variants, variant_exercises, request, pc, structure,
           variant_id, subject_idx, count_needed, results, idx,
           all_exercise_ids, order_index, total_points, response,
           tags, exercise_tags, reply, other, calls, conn_pool >>

store == << exercises, variants, variant_exercises >>

\* what generate_variant on the first connection neither reads nor writes
aux == << tags, exercise_tags, reply, other, calls, conn_pool >>

\* no variant_exercises endpoint has answered yet
NoReply == [op |-> "none", status_code |-> 0, count |-> 0]

\* no second run
NoRun == [pc |-> "idle", exam_type |-> "", structure |-> << >>,
          variant_id |-> 0, subject_idx |-> 0, results |-> << >>,
          idx |-> 0, order_index |-> 0]

\* no add_exercises_to_variant request in progress
NoCalls == << >>

\* the connection pool is not part of the run
NoPool == [ok |-> TRUE, idle |-> << >>, size |-> 0]

\* the tags before the request: one tag (POST /tags/), linked to exercise 1
\* (POST /exercises/{id}/tag) when the pool has one; weight and confidence
\* in hundredths
ExistingTags == { [id |-> 1, namespace |-> "topic", key |-> "algebra"] }

ExistingExerciseTags(pool) ==
    IF pool = << >> THEN {}
    ELSE { [exercise_id |-> 1, tag_id |-> 1, weight |-> 90,
            confidence |-> 80] }

NoResponse == [status_code |-> 0, variant_id |-> 0, exercise_count |-> 0,
               total_points |-> NullInt, structure |-> << >>]

\* the store before the request: a variant made by hand (POST /variants/),
\* with one exercise (POST /variants/{id}/exercises/) when the pool has one
ExistingVariants == { [id |-> 1, exam_type |-> "bacalaureat",
                       status |-> "DRAFT", total_points |-> NullInt] }

ExistingRows(pool) ==
    IF pool = << >> THEN {}
    ELSE { [variant_id |-> 1, exercise_id |-> 1, order_index |-> 0,
            section_name |-> NULL] }

\* the locals of a request that has not started
InitLocals ==
    /\ pc = "start"
    /\ structure = NoSubjects
    /\ variant_id = 0
    /\ subject_idx = 0
    /\ count_needed = 0
    /\ results = << >>
    /\ idx = 0
    /\ all_exercise_ids = 0
    /\ order_index = 0
    /\ total_points = NullInt
    /\ response = NoResponse

\* the difficulty ranges of the generation requests: the default, and one
\* that no exercise of GenKinds is in
GenRanges == { <<3, 7>>, <<6, 10>> }

Init ==
    /\ \/ /\ exercises \in SmallPools(GenKinds)
          /\ request \in [exam_type : ExamTypes, difficulty_range : GenRanges]
       \/ /\ exercises \in FullPools
          /\ request \in [exam_type : {"evaluare_nationala"},
                          difficulty_range : {<<3, 7>>}]
    /\ variants = ExistingVariants
    /\ variant_exercises = ExistingRows(exercises)
    /\ tags = ExistingTags
    /\ exercise_tags = ExistingExerciseTags(exercises)
    /\ reply = NoReply
    /\ other = NoRun
    /\ calls = NoCalls
    /\ conn_pool = NoPool
    /\ InitLocals

\* the loop variables of generate_variant after it has returned or raised
LoopLocalsGone ==
    /\ subject_idx' = 0
    /\ count_needed' = 0
    /\ results' = << >>
    /\ idx' = 0
    /\ all_exercise_ids' = 0
    /\ order_index' = 0

\* the position after the selector's list has been consumed up to i; the
\* list is dead once the inner loop has ended
AfterExercise(i, list) ==
    IF i < Len(list)
    THEN /\ pc' = "add"
         /\ results' = list
         /\ idx' = i + 1
         /\ subject_idx' = subject_idx
    ELSE /\ pc' = IF subject_idx < Len(structure) THEN "select" ELSE "update"
         /\ results' = << >>
         /\ idx' = 0
         /\ subject_idx' = subject_idx + 1

\* generate_variant step 1; ValueError becomes HTTP 400 in the endpoint
Resolve ==
    /\ pc = "start"
    /\ LET t == ResolveTemplate(request.exam_type)
       IN  IF t.ok
           THEN /\ structure' = t.subjects
                /\ pc' = "create"
                /\ response' = response
           ELSE /\ structure' = structure
                /\ pc' = "rejected"
                /\ response' = [NoResponse EXCEPT !.status_code = 400]
    /\ UNCHANGED << store, request, variant_id, subject_idx, count_needed,
                    results, idx, all_exercise_ids, order_index, total_points,
                    aux >>

\* _create_variant_entry (INSERT, commit) and the start of step 3
CreateVariantEntry ==
    /\ pc = "create"
    /\ LET id == NewId(variants)
       IN  /\ variants' = variants \cup
                 { [id |-> id, exam_type |-> request.exam_type,
                    status |-> "DRAFT", total_points |-> NullInt] }
           /\ variant_id' = id
    /\ all_exercise_ids' = 0
    /\ order_index' = 0
    /\ subject_idx' = 1
    /\ pc' = IF Len(structure) = 0 THEN "update" ELSE "select"
    /\ UNCHANGED << exercises, variant_exercises, request, structure,
                    count_needed, results, idx, total_points, response,
                    aux >>

\* one call of _select_exercises_for_subject from the loop of step 3
SelectExercises ==
    /\ pc = "select"
    /\ LET subject == structure[subject_idx]
       IN  /\ count_needed' = CountNeeded(subject)
           /\ \E list \in SelectExercisesForSubject(exercises, subject,
                              request.exam_type, request.difficulty_range) :
                 AfterExercise(0, list)
    /\ UNCHANGED << store, request, structure, variant_id, all_exercise_ids,
                    order_index, total_points, response, aux >>

\* one pass of the inner loop with ON CONFLICT (variant_id, exercise_id)
\* DO UPDATE SET order_index, section_name
AddExerciseToVariantUpsert ==
    /\ pc = "add"
    /\ LET row == NewRow(variant_id, results[idx], order_index,
                         structure[subject_idx].name)
       IN  variant_exercises' =
              { r \in variant_exercises :
                  ~ (/\ r.variant_id = row.variant_id
                     /\ r.exercise_id = row.exercise_id) } \cup {row}
    /\ all_exercise_ids' = all_exercise_ids + 1
    /\ order_index' = order_index + 1
    /\ AfterExercise(idx, results)
    /\ UNCHANGED << exercises, variants, request, structure, variant_id,
                    count_needed, total_points, response, aux >>

\* one pass of the inner loop: _add_exercise_to_variant (INSERT, commit),
\* all_exercise_ids.append, order_index += 1
AddExerciseToVariant ==
    /\ pc = "add"
    /\ LET ins == InsertVariantExercise(variant_exercises,
                    NewRow(variant_id, results[idx], order_index,
                           structure[subject_idx].name))
       IN  IF ins.ok
           THEN /\ variant_exercises' = ins.table
                /\ all_exercise_ids' = all_exercise_ids + 1
                /\ order_index' = order_index + 1
                /\ AfterExercise(idx, results)
                /\ count_needed' = count_needed
                /\ response' = response
           ELSE /\ pc' = "failed"
                /\ response' = [NoResponse EXCEPT !.status_code = 500]
                /\ variant_exercises' = variant_exercises
                /\ LoopLocalsGone
    /\ UNCHANGED << exercises, variants, request, structure, variant_id,
                    total_points, aux >>

\* step 4: total_points and _update_variant_points (UPDATE, commit)
UpdateVariantPoints ==
    /\ pc = "update"
    /\ total_points' = TotalPoints(structure)
    /\ variants' = { IF v.id = variant_id
                     THEN [v EXCEPT !.total_points = TotalPoints(structure)]
                     ELSE v : v \in variants }
    /\ pc' = "return"
    /\ UNCHANGED << exercises, variant_exercises, request, structure,
                    variant_id, subject_idx, count_needed, results, idx,
                    all_exercise_ids, order_index, response, aux >>

\* the summary of generate_variant, wrapped by the endpoint
Return ==
    /\ pc = "return"
    /\ response' = [status_code    |-> 200,
                    variant_id     |-> variant_id,
                    exercise_count |-> all_exercise_ids,
                    total_points   |-> total_points,
                    structure      |-> SummaryStructure(structure)]
    /\ pc' = "done"
    /\ LoopLocalsGone
    /\ UNCHANGED << store, request, structure, variant_id, total_points,
                    aux >>

\* a write (execute or commit) raises: the generator propagates it, the
\* endpoint calls conn.rollback(), which undoes the failed statement only,
\* and answers 500
PersistenceError ==
    /\ pc \in {"create", "add", "update"}
    /\ pc' = "failed"
    /\ response' = [NoResponse EXCEPT !.status_code = 500]
    /\ LoopLocalsGone
    /\ UNCHANGED << store, request, structure, variant_id, total_points,
                    aux >>

Next ==
    \/ Resolve
    \/ CreateVariantEntry
    \/ SelectExercises
    \/ AddExerciseToVariant
    \/ UpdateVariantPoints
    \/ Return
    \/ PersistenceError

Spec == Init /\ [][Next]_vars

\* a request during which the data store does not fail: it runs to
\* completion on the thread that handles it
NextRun ==
    \/ Resolve
    \/ CreateVariantEntry
    \/ SelectExercises
    \/ AddExerciseToVariant
    \/ UpdateVariantPoints
    \/ Return

InitRun ==
    /\ exercises \in PoolsUpTo(GenKinds, MaxRunPool)
    /\ request \in [exam_type : ExamTypes, difficulty_range : GenRanges]
    /\ variants = ExistingVariants
    /\ variant_exercises = ExistingRows(exercises)
    /\ tags = ExistingTags
    /\ exercise_tags = ExistingExerciseTags(exercises)
    /\ reply = NoReply
    /\ other = NoRun
    /\ calls = NoCalls
    /\ conn_pool = NoPool
    /\ InitLocals

SpecRun == InitRun /\ [][NextRun]_vars /\ WF_vars(NextRun)

\* ------------------------------------------------------------------------
\* Two generate_variant requests at once: FastAPI runs the sync endpoint
\* in a thread pool and get_db_conn gives each request its own connection.
\* Every statement is followed by a commit, so the requests interleave
\* between statements. The second request's locals are the record `other`.
\* ------------------------------------------------------------------------

\* the locals of the request on the first connection
locals == << request, pc, structure, variant_id, subject_idx, count_needed,
             results, idx, all_exercise_ids, order_index, total_points,
             response >>

SupportedExamTypes == {"bacalaureat", "evaluare_nationala"}

\* the kinds of the shared pool: rows that a section matches strictly and
\* rows that only the relaxed query returns
ConcKinds == << KindS1, KindGen >>

InitConc ==
    /\ exercises \in PoolsUpTo(ConcKinds, MaxConcPool)
    /\ request \in [exam_type : SupportedExamTypes,
                    difficulty_range : {<<3, 7>>}]
    /\ variants = ExistingVariants
    /\ variant_exercises = ExistingRows(exercises)
    /\ tags = ExistingTags
    /\ exercise_tags = ExistingExerciseTags(exercises)
    /\ reply = NoReply
    /\ other = [NoRun EXCEPT !.pc = "start",
                             !.exam_type = "evaluare_nationala"]
    /\ calls = NoCalls
    /\ conn_pool = NoPool
    /\ InitLocals

\* the second request after the selector's list has been consumed up to i
OtherAfterExercise(o, i, list) ==
    IF i < Len(list)
    THEN [o EXCEPT !.pc = "add", !.results = list, !.idx = i + 1]
    ELSE [o EXCEPT !.pc = IF o.subject_idx < Len(o.structure)
                          THEN "select" ELSE "update",
                   !.results = << >>, !.idx = 0,
                   !.subject_idx = o.subject_idx + 1]

\* generate_variant step 1 of the second request
OtherResolve ==
    /\ other.pc = "start"
    /\ LET t == ResolveTemplate(other.exam_type)
       IN  other' = IF t.ok
                    THEN [other EXCEPT !.structure = t.subjects,
                                       !.pc = "create"]
                    ELSE [other EXCEPT !.pc = "rejected"]
    /\ UNCHANGED << store, locals, tags, exercise_tags, reply, calls,
                    conn_pool >>

\* _create_variant_entry of the second request
OtherCreateVariantEntry ==
    /\ other.pc = "create"
    /\ LET id == NewId(variants)
       IN  /\ variants' = variants \cup
                 { [id |-> id, exam_type |-> other.exam_type,
                    status |-> "DRAFT", total_points |-> NullInt] }
           /\ other' = [other EXCEPT
                          !.variant_id = id,
                          !.order_index = 0,
                          !.subject_idx = 1,
                          !.pc = IF Len(other.structure) = 0
                                 THEN "update" ELSE "select"]
    /\ UNCHANGED << exercises, variant_exercises, locals, tags,
                    exercise_tags, reply, calls,
                    conn_pool >>

\* one selector call of the second request, with the same difficulty range
OtherSelectExercises ==
    /\ other.pc = "select"
    /\ \E list \in SelectExercisesForSubject(exercises,
                       other.structure[other.subject_idx],
                       other.exam_type, request.difficulty_range) :
          other' = OtherAfterExercise(other, 0, list)
    /\ UNCHANGED << store, locals, tags, exercise_tags, reply, calls,
                    conn_pool >>

\* an insert at the position after the last row of the whole table
OtherAddExerciseAfterLastRow ==
    /\ other.pc = "add"
    /\ LET last == CHOOSE n \in 0..Cardinality(variant_exercises) :
                      /\ \A r \in variant_exercises : r.order_index < n
                      /\ \/ n = 0
                         \/ \E r \in variant_exercises :
                               r.order_index = n - 1
           ins == InsertVariantExercise(variant_exercises,
                    NewRow(other.variant_id, other.results[other.idx],
                           last,
                           other.structure[other.subject_idx].name))
       IN  /\ variant_exercises' = ins.table
           /\ other' = OtherAfterExercise(
                          [other EXCEPT !.order_index = @ + 1],
                          other.idx, other.results)
    /\ UNCHANGED << exercises, variants, locals, tags, exercise_tags,
                    reply, calls,
                    conn_pool >>

\* one pass of the inner loop of the second request
OtherAddExerciseToVariant ==
    /\ other.pc = "add"
    /\ LET ins == InsertVariantExercise(variant_exercises,
                    NewRow(other.variant_id, other.results[other.idx],
                           other.order_index,
                           other.structure[other.subject_idx].name))
       IN  IF ins.ok
           THEN /\ variant_exercises' = ins.table
                /\ other' = OtherAfterExercise(
                               [other EXCEPT !.order_index = @ + 1],
                               other.idx, other.results)
           ELSE /\ variant_exercises' = variant_exercises
                /\ other' = [other EXCEPT !.pc = "failed",
                                          !.results = << >>, !.idx = 0,
                                          !.subject_idx = 0,
                                          !.order_index = 0]
    /\ UNCHANGED << exercises, variants, locals, tags, exercise_tags,
                    reply, calls,
                    conn_pool >>

\* step 4 and the return of the second request
OtherUpdateVariantPoints ==
    /\ other.pc = "update"
    /\ variants' = { IF v.id = other.variant_id
                     THEN [v EXCEPT !.total_points =
                                      TotalPoints(other.structure)]
                     ELSE v : v \in variants }
    /\ other' = [other EXCEPT !.pc = "done", !.subject_idx = 0,
                              !.order_index = 0]
    /\ UNCHANGED << exercises, variant_exercises, locals, tags,
                    exercise_tags, reply, calls,
                    conn_pool >>

NextConc ==
    \/ Resolve
    \/ CreateVariantEntry
    \/ SelectExercises
    \/ AddExerciseToVariant
    \/ UpdateVariantPoints
    \/ Return
    \/ OtherResolve
    \/ OtherCreateVariantEntry
    \/ OtherSelectExercises
    \/ OtherAddExerciseToVariant
    \/ OtherUpdateVariantPoints

SpecConc == InitConc /\ [][NextConc]_vars

\* ------------------------------------------------------------------------
\* The variant_exercises endpoints of main.py, called one after another,
\* before and after a generate_variant request. Each endpoint is one
\* transaction: an exception rolls all of its statements back.
\* ------------------------------------------------------------------------

\* SELECT COALESCE(MAX(order_index), -1) ... WHERE variant_id = v
MaxOrder(table, v) ==
    IF RowsOf(table, v) = {} THEN -1
    ELSE CHOOSE n \in { r.order_index : r \in RowsOf(table, v) } :
            \A r \in RowsOf(table, v) : r.order_index <= n

\* the loop of add_exercises_to_variant from position i (0-based) on
RECURSIVE AddAll(_, _, _, _, _, _)
AddAll(table, v, exercise_ids, current_max, i, added_count) ==
    IF i = Len(exercise_ids)
    THEN [ok |-> TRUE, table |-> table, added_count |-> added_count]
    ELSE LET ins == InsertVariantExercise(table,
                      NewRow(v, exercise_ids[i + 1], current_max + i + 1,
                             NULL))
         IN  IF ins.ok
             THEN AddAll(ins.table, v, exercise_ids, current_max, i + 1,
                         IF ins.table # table THEN added_count + 1
                         ELSE added_count)
             ELSE [ok |-> FALSE, table |-> table,
                   added_count |-> added_count]

\* the loop of reorder_variant_exercises from position i (0-based) on; an
\* UPDATE that gives a row the order_index of another row of the variant
\* violates UNIQUE(variant_id, order_index)
RECURSIVE ReorderAll(_, _, _, _)
ReorderAll(table, v, exercise_order, i) ==
    IF i = Len(exercise_order) THEN [ok |-> TRUE, table |-> table]
    ELSE LET hit == { r \in table : /\ r.variant_id = v
                                    /\ r.exercise_id = exercise_order[i + 1] }
         IN  IF hit = {} THEN ReorderAll(table, v, exercise_order, i + 1)
             ELSE IF \E r \in RowsOf(table, v) \ hit : r.order_index = i
             THEN [ok |-> FALSE, table |-> table]
             ELSE ReorderAll((table \ hit) \cup
                               { [r EXCEPT !.order_index = i] : r \in hit },
                             v, exercise_order, i + 1)

\* the request bodies: lists of ids of exercises
IdLists == UNION { [1..n -> DOMAIN exercises] : n \in 0..MaxCrudList }

\* the variant ids of the paths: every variant, and an id of no variant
VariantIds == { v.id : v \in variants } \cup { NewId(variants) }

\* no generate_variant request is running
Quiet == pc \in {"start", "done"}

\* the endpoints do not read the columns of exercises: one kind of row
CrudKinds == << KindS1 >>

InitCrud ==
    /\ exercises \in PoolsUpTo(CrudKinds, MaxCrudPool)
    /\ request \in [exam_type : {"evaluare_nationala"},
                    difficulty_range : {<<3, 7>>}]
    /\ variants = ExistingVariants
    /\ variant_exercises = ExistingRows(exercises)
    /\ tags = ExistingTags
    /\ exercise_tags = ExistingExerciseTags(exercises)
    /\ reply = NoReply
    /\ other = NoRun
    /\ calls = NoCalls
    /\ conn_pool = NoPool
    /\ InitLocals

\* POST /variants/{variant_id}/exercises/; a row for a variant that does
\* not exist violates the foreign key
AddExercisesToVariant ==
    /\ Quiet
    /\ \E v \in VariantIds : \E exercise_ids \in IdLists :
          LET current_max == MaxOrder(variant_exercises, v)
              res == IF v \in { x.id : x \in variants }
                        \/ exercise_ids = << >>
                     THEN AddAll(variant_exercises, v, exercise_ids,
                                 current_max, 0, 0)
                     ELSE [ok |-> FALSE, table |-> variant_exercises,
                           added_count |-> 0]
          IN  /\ current_max + Len(exercise_ids) <= MaxOrderIndex
              /\ IF res.ok
                 THEN /\ variant_exercises' = res.table
                      /\ reply' = [op |-> "add", status_code |-> 200,
                                   count |-> res.added_count]
                 ELSE /\ variant_exercises' = variant_exercises
                      /\ reply' = [op |-> "add", status_code |-> 500,
                                   count |-> 0]
    /\ UNCHANGED << exercises, variants, locals, tags, exercise_tags,
                    other, calls,
                    conn_pool >>

\* DELETE /variants/{variant_id}/exercises/{exercise_id}: the 404 raised
\* after the commit is caught by `except Exception` and answered as 500
RemoveExerciseFromVariant ==
    /\ Quiet
    /\ \E v \in VariantIds : \E exercise_id \in DOMAIN exercises :
          LET deleted == { r \in variant_exercises :
                             /\ r.variant_id = v
                             /\ r.exercise_id = exercise_id }
          IN  /\ variant_exercises' = variant_exercises \ deleted
              /\ reply' = [op |-> "remove",
                           status_code |-> IF deleted = {} THEN 500
                                           ELSE 200,
                           count |-> Cardinality(deleted)]
    /\ UNCHANGED << exercises, variants, locals, tags, exercise_tags,
                    other, calls,
                    conn_pool >>

\* PUT /variants/{variant_id}/exercises/reorder
ReorderVariantExercises ==
    /\ Quiet
    /\ \E v \in VariantIds : \E exercise_order \in IdLists :
          LET res == ReorderAll(variant_exercises, v, exercise_order, 0)
          IN  IF res.ok
              THEN /\ variant_exercises' = res.table
                   /\ reply' = [op |-> "reorder", status_code |-> 200,
                                count |-> Len(exercise_order)]
              ELSE /\ variant_exercises' = variant_exercises
                   /\ reply' = [op |-> "reorder", status_code |-> 500,
                                count |-> 0]
    /\ UNCHANGED << exercises, variants, locals, tags, exercise_tags,
                    other, calls,
                    conn_pool >>

NextCrud ==
    \/ Resolve
    \/ CreateVariantEntry
    \/ SelectExercises
    \/ AddExerciseToVariant
    \/ UpdateVariantPoints
    \/ Return
    \/ AddExercisesToVariant
    \/ RemoveExerciseFromVariant
    \/ ReorderVariantExercises

SpecCrud == InitCrud /\ [][NextCrud]_vars

\* ------------------------------------------------------------------------
\* The delete endpoints of main.py beside add and remove, on two variants
\* made by hand. After a delete, `exercises` is a function on the ids that
\* are left.
\* ------------------------------------------------------------------------

\* two variants made with POST /variants/
HandMadeVariants ==
    ExistingVariants \cup
    { [id |-> NewId(ExistingVariants), exam_type |-> "evaluare_nationala",
       status |-> "DRAFT", total_points |-> NullInt] }

InitDel ==
    /\ exercises \in PoolsUpTo(CrudKinds, MaxDelPool)
    /\ request \in [exam_type : {"evaluare_nationala"},
                    difficulty_range : {<<3, 7>>}]
    /\ variants = HandMadeVariants
    /\ variant_exercises = ExistingRows(exercises)
    /\ tags = ExistingTags
    /\ exercise_tags = ExistingExerciseTags(exercises)
    /\ reply = NoReply
    /\ other = NoRun
    /\ calls = NoCalls
    /\ conn_pool = NoPool
    /\ InitLocals

\* DELETE FROM variants with no ON DELETE CASCADE on variant_exercises
DeleteVariantNoCascade ==
    /\ Quiet
    /\ \E v \in VariantIds :
          LET deleted == { x \in variants : x.id = v }
          IN  /\ variants' = variants \ deleted
              /\ reply' = [op |-> "delete_variant",
                           status_code |-> IF deleted = {} THEN 500
                                           ELSE 204,
                           count |-> Cardinality(deleted)]
    /\ UNCHANGED << exercises, variant_exercises, locals, tags,
                    exercise_tags, other, calls,
                    conn_pool >>

\* DELETE /variants/{variant_id}: the rows of variant_exercises go with the
\* variant (ON DELETE CASCADE); the 404 raised after the commit is caught by
\* `except Exception` and answered as 500; count is cur.rowcount
DeleteVariant ==
    /\ Quiet
    /\ \E v \in VariantIds :
          LET deleted == { x \in variants : x.id = v }
          IN  /\ variants' = variants \ deleted
              /\ variant_exercises' =
                    IF deleted = {} THEN variant_exercises
                    ELSE variant_exercises \ RowsOf(variant_exercises, v)
              /\ reply' = [op |-> "delete_variant",
                           status_code |-> IF deleted = {} THEN 500
                                           ELSE 204,
                           count |-> Cardinality(deleted)]
    /\ UNCHANGED << exercises, locals, tags, exercise_tags, other, calls,
                    conn_pool >>

\* DELETE /exercises/{exercise_id}: the rows of variant_exercises go with
\* the exercise (ON DELETE CASCADE). The schema of exercise_tags is not part
\* of the sources: when a link names the exercise, either it goes with the
\* exercise, or the DELETE violates the foreign key and the endpoint rolls
\* back and answers 500 with no rowcount
DeleteExercise ==
    /\ Quiet
    /\ \E e \in 1..(MaxDelPool + 1) :
          LET links == { et \in exercise_tags : et.exercise_id = e }
          IN  IF e \notin DOMAIN exercises
              THEN /\ UNCHANGED << exercises, variant_exercises,
                                   exercise_tags >>
                   /\ reply' = [op |-> "delete_exercise",
                                status_code |-> 500, count |-> 0]
              ELSE \/ /\ exercises' = [i \in DOMAIN exercises \ {e} |->
                                         exercises[i]]
                      /\ variant_exercises' =
                            { r \in variant_exercises : r.exercise_id # e }
                      /\ exercise_tags' = exercise_tags \ links
                      /\ reply' = [op |-> "delete_exercise",
                                   status_code |-> 204, count |-> 1]
                   \/ /\ links # {}
                      /\ UNCHANGED << exercises, variant_exercises,
                                      exercise_tags >>
                      /\ reply' = [op |-> "delete_exercise",
                                   status_code |-> 500, count |-> NullInt]
    /\ UNCHANGED << variants, locals, tags, other, calls,
                    conn_pool >>

NextDel ==
    \/ AddExercisesToVariant
    \/ RemoveExerciseFromVariant
    \/ DeleteVariant
    \/ DeleteExercise

SpecDel == InitDel /\ [][NextDel]_vars

\* ------------------------------------------------------------------------
\* Two add_exercises_to_variant requests at once on the variant made by
\* hand, each on its own connection and in its own transaction (READ
\* COMMITTED). calls[c].rows are the rows the transaction of connection c
\* has inserted and not committed. An INSERT that meets an uncommitted row
\* of the other transaction with the same key waits for that transaction
\* to end.
\* ------------------------------------------------------------------------

Conns == {"a", "b"}

OtherConn(c) == CHOOSE x \in Conns : x # c

\* the request bodies of the two requests
AddLists == UNION { [1..n -> DOMAIN exercises] : n \in 0..MaxAddList }

\* the row of the INSERT at the position of call k
CallRow(k) ==
    NewRow(k.variant_id, k.exercise_ids[k.idx + 1],
           k.current_max + k.idx + 1, NULL)

\* row has the (variant, exercise) pair of a row of the set
PairIn(row, rows) ==
    \E r \in rows : /\ r.variant_id = row.variant_id
                    /\ r.exercise_id = row.exercise_id

\* row has the (variant, order_index) pair of a row of the set
OrderIn(row, rows) ==
    \E r \in rows : /\ r.variant_id = row.variant_id
                    /\ r.order_index = row.order_index

\* the INSERT of call k has to wait for the transaction that holds `held`:
\* the arbiter index is looked at first, then the other unique index
Waits(k, table, held) ==
    /\ k.pc = "insert"
    /\ k.idx < Len(k.exercise_ids)
    /\ ~ PairIn(CallRow(k), table \cup k.rows)
    /\ \/ PairIn(CallRow(k), held)
       \/ /\ ~ OrderIn(CallRow(k), table \cup k.rows)
          /\ OrderIn(CallRow(k), held)

\* the end of a request that raised: rollback, HTTP 500
Failed(k) == [k EXCEPT !.pc = "done", !.rows = {}, !.status_code = 500,
                       !.added_count = 0]

InitAdd ==
    /\ exercises \in PoolsUpTo(CrudKinds, MaxAddPool)
    /\ request \in [exam_type : {"evaluare_nationala"},
                    difficulty_range : {<<3, 7>>}]
    /\ variants = ExistingVariants
    /\ variant_exercises = ExistingRows(exercises)
    /\ tags = ExistingTags
    /\ exercise_tags = ExistingExerciseTags(exercises)
    /\ reply = NoReply
    /\ other = NoRun
    /\ conn_pool = NoPool
    /\ \E la \in AddLists : \E lb \in AddLists :
          calls = [c \in Conns |->
                     [pc |-> "read",
                      variant_id |->
                         (CHOOSE v \in ExistingVariants : TRUE).id,
                      exercise_ids |-> IF c = "a" THEN la ELSE lb,
                      current_max |-> -1, idx |-> 0, added_count |-> 0,
                      rows |-> {}, status_code |-> 0]]
    /\ InitLocals

\* SELECT COALESCE(MAX(order_index), -1): it sees the committed rows
AddRead(c) ==
    /\ calls[c].pc = "read"
    /\ calls' = [calls EXCEPT
                   ![c].current_max =
                       MaxOrder(variant_exercises, calls[c].variant_id),
                   ![c].pc = "insert"]
    /\ UNCHANGED << store, locals, tags, exercise_tags, reply, other,
                    conn_pool >>

\* one INSERT under a schema without UNIQUE(variant_id, order_index)
AddInsertNoUniqueOrder(c) ==
    LET k == calls[c]
        held == calls[OtherConn(c)].rows
    IN  /\ k.pc = "insert"
        /\ k.idx < Len(k.exercise_ids)
        /\ ~ (/\ ~ PairIn(CallRow(k), variant_exercises \cup k.rows)
              /\ PairIn(CallRow(k), held))
        /\ calls' =
              [calls EXCEPT ![c] =
                 IF PairIn(CallRow(k), variant_exercises \cup k.rows)
                 THEN [k EXCEPT !.idx = @ + 1]
                 ELSE [k EXCEPT !.idx = @ + 1,
                                !.rows = @ \cup {CallRow(k)},
                                !.added_count = @ + 1]]
        /\ UNCHANGED << store, locals, tags, exercise_tags, reply, other,
                    conn_pool >>

\* one pass of the loop: INSERT ... ON CONFLICT (variant_id, exercise_id)
\* DO NOTHING RETURNING id. When both transactions wait for each other the
\* data store ends one of them with an error.
AddInsert(c) ==
    LET k == calls[c]
        o == calls[OtherConn(c)]
    IN  /\ k.pc = "insert"
        /\ k.idx < Len(k.exercise_ids)
        /\ IF Waits(k, variant_exercises, o.rows)
           THEN /\ Waits(o, variant_exercises, k.rows)
                /\ calls' = [calls EXCEPT ![c] = Failed(k)]
           ELSE LET ins == InsertVariantExercise(
                              variant_exercises \cup k.rows, CallRow(k))
                IN  calls' =
                      [calls EXCEPT ![c] =
                         IF ~ ins.ok THEN Failed(k)
                         ELSE IF ins.table # variant_exercises \cup k.rows
                         THEN [k EXCEPT !.idx = @ + 1,
                                        !.rows = @ \cup {CallRow(k)},
                                        !.added_count = @ + 1]
                         ELSE [k EXCEPT !.idx = @ + 1]]
        /\ UNCHANGED << store, locals, tags, exercise_tags, reply, other,
                    conn_pool >>

\* conn.commit() and the response
AddCommit(c) ==
    /\ calls[c].pc = "insert"
    /\ calls[c].idx = Len(calls[c].exercise_ids)
    /\ variant_exercises' = variant_exercises \cup calls[c].rows
    /\ calls' = [calls EXCEPT ![c].pc = "done", ![c].rows = {},
                              ![c].status_code = 200]
    /\ reply' = [op |-> "add", status_code |-> 200,
                 count |-> calls[c].added_count]
    /\ UNCHANGED << exercises, variants, locals, tags, exercise_tags,
                    other,
                    conn_pool >>

NextAdd ==
    \E c \in Conns :
       \/ AddRead(c)
       \/ AddInsert(c)
       \/ AddCommit(c)

SpecAdd == InitAdd /\ [][NextAdd]_vars

\* ------------------------------------------------------------------------
\* The paths that write tags and exercise_tags: create_tag,
\* tag_exercise_endpoint and _save_structured_exercises of main.py, and
\* JSONImporter of import_json.py. Weights and confidences are in
\* hundredths; the label of a tag is not part of the rows.
\* ------------------------------------------------------------------------

\* the tags a request can name: topic/algebra, which exists, and
\* topic/matematica, the tag of _mock_tagging
TagKeys == {"algebra", "matematica"}

\* a tag of the tagger's output, of ExerciseImport.tags or of the JSON file
TagData == [namespace : {"topic"}, key : TagKeys, weight : {100},
            confidence : {50}]

TagLists == UNION { [1..n -> TagData] : n \in 0..MaxTagList }

\* INSERT INTO tags ... ON CONFLICT (namespace, key) DO UPDATE SET label
UpsertTag(table, namespace, key) ==
    IF \E t \in table : t.namespace = namespace /\ t.key = key
    THEN table
    ELSE table \cup { [id |-> NewId(table), namespace |-> namespace,
                       key |-> key] }

\* import_tags: SELECT id FROM tags WHERE namespace, key; INSERT when no row
ImportTag(table, namespace, key) ==
    IF { t \in table : t.namespace = namespace /\ t.key = key } # {}
    THEN table
    ELSE table \cup { [id |-> NewId(table), namespace |-> namespace,
                       key |-> key] }

\* SELECT / RETURNING id of the tag (namespace, key)
TagIdOf(table, namespace, key) ==
    (CHOOSE t \in table : t.namespace = namespace /\ t.key = key).id

\* INSERT INTO exercise_tags with no ON CONFLICT clause and no unique index
InsertLinkAlways(table, e, t, weight, confidence) ==
    table \cup { [exercise_id |-> e, tag_id |-> t, weight |-> weight,
                  confidence |-> confidence] }

\* INSERT INTO exercise_tags ... ON CONFLICT (exercise_id, tag_id)
\* DO UPDATE SET weight = EXCLUDED.weight
UpsertLinkWeight(table, e, t, weight, confidence) ==
    IF \E l \in table : l.exercise_id = e /\ l.tag_id = t
    THEN { IF l.exercise_id = e /\ l.tag_id = t
           THEN [l EXCEPT !.weight = weight] ELSE l : l \in table }
    ELSE table \cup { [exercise_id |-> e, tag_id |-> t, weight |-> weight,
                       confidence |-> confidence] }

\* INSERT INTO exercise_tags ... ON CONFLICT (exercise_id, tag_id)
\* DO UPDATE SET weight = EXCLUDED.weight, confidence = EXCLUDED.confidence
UpsertLinkWeightConfidence(table, e, t, weight, confidence) ==
    IF \E l \in table : l.exercise_id = e /\ l.tag_id = t
    THEN { IF l.exercise_id = e /\ l.tag_id = t
           THEN [l EXCEPT !.weight = weight, !.confidence = confidence]
           ELSE l : l \in table }
    ELSE table \cup { [exercise_id |-> e, tag_id |-> t, weight |-> weight,
                       confidence |-> confidence] }

\* the tags table after the tag statements of a list
RECURSIVE TagsAfter(_, _, _)
TagsAfter(table, list, i) ==
    IF i = 0 THEN table
    ELSE UpsertTag(TagsAfter(table, list, i - 1),
                   list[i].namespace, list[i].key)

\* the tags table after import_tags on the catalog
RECURSIVE TagsAfterImport(_, _, _)
TagsAfterImport(table, catalog, i) ==
    IF i = 0 THEN table
    ELSE ImportTag(TagsAfterImport(table, catalog, i - 1),
                   catalog[i].namespace, catalog[i].key)

\* exercise_tags after the link statements of tag_exercise_endpoint:
\* t.get('weight', 1.0) and the confidence 0.8
RECURSIVE LinksAfterTagging(_, _, _, _, _)
LinksAfterTagging(links, tagtable, e, list, i) ==
    IF i = 0 THEN links
    ELSE UpsertLinkWeight(LinksAfterTagging(links, tagtable, e, list, i - 1),
                          e,
                          TagIdOf(tagtable, list[i].namespace, list[i].key),
                          list[i].weight, 80)

\* exercise_tags after the link statements of _save_structured_exercises:
\* t.weight and the confidence 1.0
RECURSIVE LinksAfterSave(_, _, _, _, _)
LinksAfterSave(links, tagtable, e, list, i) ==
    IF i = 0 THEN links
    ELSE UpsertLinkWeight(LinksAfterSave(links, tagtable, e, list, i - 1),
                          e,
                          TagIdOf(tagtable, list[i].namespace, list[i].key),
                          list[i].weight, 100)

\* exercise_tags after import_exercise_tags: the weight and the confidence
\* of the file
RECURSIVE LinksAfterImport(_, _, _, _, _)
LinksAfterImport(links, tagtable, e, list, i) ==
    IF i = 0 THEN links
    ELSE UpsertLinkWeightConfidence(
            LinksAfterImport(links, tagtable, e, list, i - 1), e,
            TagIdOf(tagtable, list[i].namespace, list[i].key),
            list[i].weight, list[i].confidence)

\* the exercise that _save_structured_exercises creates
StructuredExercise == [KindS1 EXCEPT !.status = "DRAFT"]

\* the exercise that import_exercises creates
ImportedExercise ==
    [item_type |-> "exercitiu", exam_type |-> "bacalaureat",
     difficulty |-> 5, status |-> "DRAFT"]

\* the tag request that was handled last: the path, the exercise and the
\* tags applied to it
TagCall(op, e, list) == << [op |-> op, exercise_id |-> e, tags |-> list] >>

\* the confidence a path writes for the tag d of its input
SuppliedConfidence(op, d) ==
    IF op = "tag_exercise" THEN 80
    ELSE IF op = "save_structured" THEN 100
    ELSE d.confidence

\* the kinds of the pool: an exercise in use and an archived one
TagKinds == << KindS1, KindArch >>

InitTag ==
    /\ exercises \in PoolsUpTo(TagKinds, MaxTagPool)
    /\ request \in [exam_type : {"evaluare_nationala"},
                    difficulty_range : {<<3, 7>>}]
    /\ variants = ExistingVariants
    /\ variant_exercises = ExistingRows(exercises)
    /\ tags = ExistingTags
    /\ exercise_tags = ExistingExerciseTags(exercises)
    /\ reply = NoReply
    /\ other = NoRun
    /\ calls = NoCalls
    /\ conn_pool = NoPool
    /\ InitLocals

\* POST /tags/
CreateTag ==
    /\ \E key \in TagKeys : tags' = UpsertTag(tags, "topic", key)
    /\ reply' = [op |-> "create_tag", status_code |-> 201,
                 count |-> Cardinality(tags') - Cardinality(tags)]
    /\ calls' = NoCalls
    /\ UNCHANGED << store, locals, exercise_tags, other,
                    conn_pool >>

\* POST /exercises/{exercise_id}/tag: 404 for an unknown exercise, then the
\* tagger's tags and their links in one transaction
TagExerciseEndpoint ==
    /\ \E e \in 1..(Len(exercises) + 1) : \E list \in TagLists :
          IF e \notin DOMAIN exercises
          THEN /\ UNCHANGED << tags, exercise_tags >>
               /\ calls' = NoCalls
               /\ reply' = [op |-> "tag_exercise", status_code |-> 404,
                            count |-> 0]
          ELSE /\ tags' = TagsAfter(tags, list, Len(list))
               /\ calls' = TagCall("tag_exercise", e, list)
               /\ exercise_tags' =
                     LinksAfterTagging(exercise_tags, tags', e, list,
                                       Len(list))
               /\ reply' = [op |-> "tag_exercise", status_code |-> 200,
                            count |-> Len(list)]
    /\ UNCHANGED << store, locals, other,
                    conn_pool >>

\* _save_structured_exercises for one exercise of the list: a new exercise
\* and its tags
SaveStructuredExercise ==
    /\ Len(exercises) < MaxTagPool
    /\ \E list \in TagLists :
          /\ exercises' = Append(exercises, StructuredExercise)
          /\ tags' = TagsAfter(tags, list, Len(list))
          /\ exercise_tags' =
                LinksAfterSave(exercise_tags, tags', Len(exercises'), list,
                               Len(list))
          /\ calls' = TagCall("save_structured", Len(exercises'), list)
          /\ reply' = [op |-> "save_structured", status_code |-> 200,
                       count |-> Len(list)]
    /\ UNCHANGED << variants, variant_exercises, locals, other,
                    conn_pool >>

\* JSONImporter.run on a file with one exercise, whose tags are in the
\* tag_catalog: the exercise is found by its external_id or is created
ImportJson ==
    /\ \E e \in 1..(Len(exercises) + 1) : \E list \in TagLists :
          /\ e \in DOMAIN exercises \/ Len(exercises) < MaxTagPool
          /\ exercises' = IF e \in DOMAIN exercises THEN exercises
                          ELSE Append(exercises, ImportedExercise)
          /\ tags' = TagsAfterImport(tags, list, Len(list))
          /\ exercise_tags' =
                LinksAfterImport(exercise_tags, tags', e, list, Len(list))
          /\ calls' = TagCall("import_json", e, list)
          /\ reply' = [op |-> "import_json", status_code |-> 200,
                       count |-> Len(list)]
    /\ UNCHANGED << variants, variant_exercises, locals, other,
                    conn_pool >>

NextTag ==
    \/ CreateTag
    \/ TagExerciseEndpoint
    \/ SaveStructuredExercise
    \/ ImportJson

SpecTag == InitTag /\ [][NextTag]_vars

\* ------------------------------------------------------------------------
\* The connection pool of database.py. get_db_conn is a generator around
\* `with conn_pool.connection() as conn: yield conn`: the connection is taken
\* when the generator is started and is put back when the generator is
\* resumed, closed or thrown into. FastAPI drives it for an endpoint
\* (Depends), JSONImporter.run drives it by hand; POST /import-json/ does
\* both, the second inside the first.
\* ------------------------------------------------------------------------

\* ConnectionPool(min_size=1)
min_size == 1

Reqs == 1..MaxReq

\* an endpoint with Depends(get_db_conn), the import script, and the
\* endpoint that runs the importer
ReqKinds == {"endpoint", "script", "import_endpoint"}

\* no connection
NoConn == 0

\* conn_pool.connection(): an idle connection, else a new one while the pool
\* may grow; got = NoConn when the pool is None (ConnectionError) or when
\* all connections stay checked out until the timeout (PoolTimeout)
GetConn(pool) ==
    IF ~ pool.ok THEN [got |-> NoConn, pool |-> pool]
    ELSE IF pool.idle # << >>
    THEN [got |-> Head(pool.idle),
          pool |-> [pool EXCEPT !.idle = Tail(@)]]
    ELSE IF pool.size < MaxConn
    THEN [got |-> pool.size + 1, pool |-> [pool EXCEPT !.size = @ + 1]]
    ELSE [got |-> NoConn, pool |-> pool]

\* the end of `with conn_pool.connection()`: the connection goes back
PutConn(pool, conn) == [pool EXCEPT !.idle = Append(@, conn)]

InitPool ==
    /\ exercises = << >>
    /\ request \in [exam_type : {"evaluare_nationala"},
                    difficulty_range : {<<3, 7>>}]
    /\ variants = ExistingVariants
    /\ variant_exercises = ExistingRows(exercises)
    /\ tags = ExistingTags
    /\ exercise_tags = ExistingExerciseTags(exercises)
    /\ reply = NoReply
    /\ other = NoRun
    /\ calls \in [Reqs -> [kind : ReqKinds, pc : {"idle"}, conn : {NoConn},
                           self_conn : {NoConn}, raised : {FALSE}]]
    /\ \E ok \in BOOLEAN :
          conn_pool = [ok |-> ok,
                       idle |-> IF ok THEN [i \in 1..min_size |-> i]
                                ELSE << >>,
                       size |-> IF ok THEN min_size ELSE 0]
    /\ InitLocals

\* the start of the request: FastAPI starts get_db_conn for an endpoint, an
\* error there ends the request; the script goes to run()
Acquire(r) ==
    /\ calls[r].pc = "idle"
    /\ IF calls[r].kind = "script"
       THEN /\ calls' = [calls EXCEPT ![r].pc = "run"]
            /\ UNCHANGED conn_pool
       ELSE LET g == GetConn(conn_pool)
            IN  /\ conn_pool' = g.pool
                /\ calls' = [calls EXCEPT
                               ![r].conn = g.got,
                               ![r].raised = (g.got = NoConn),
                               ![r].pc = IF g.got = NoConn THEN "done"
                                         ELSE "body"]
    /\ UNCHANGED << store, locals, tags, exercise_tags, reply, other >>

\* the endpoint's function: it returns or raises; import_json_endpoint
\* calls importer.run()
Body(r) ==
    /\ calls[r].pc = "body"
    /\ IF calls[r].kind = "import_endpoint"
       THEN calls' = [calls EXCEPT ![r].pc = "run"]
       ELSE \E raised \in BOOLEAN :
               calls' = [calls EXCEPT ![r].pc = "exit",
                                      ![r].raised = raised]
    /\ UNCHANGED << store, locals, tags, exercise_tags, reply, other,
                    conn_pool >>

\* JSONImporter.run: conn_gen = get_db_conn(); self.conn = next(conn_gen),
\* before the try block
ImportAcquire(r) ==
    /\ calls[r].pc = "run"
    /\ LET g == GetConn(conn_pool)
       IN  /\ conn_pool' = g.pool
           /\ calls' = [calls EXCEPT
                          ![r].self_conn = g.got,
                          ![r].raised = (g.got = NoConn),
                          ![r].pc = IF g.got # NoConn THEN "try"
                                    ELSE IF calls[r].kind = "script"
                                    THEN "done" ELSE "exit"]
    /\ UNCHANGED << store, locals, tags, exercise_tags, reply, other >>

\* the try block of run(): the import steps end or one of them raises
ImportTry(r) ==
    /\ calls[r].pc = "try"
    /\ \E raised \in BOOLEAN :
          calls' = [calls EXCEPT ![r].raised = raised,
                                 ![r].pc = IF raised THEN "except"
                                           ELSE "finally"]
    /\ UNCHANGED << store, locals, tags, exercise_tags, reply, other,
                    conn_pool >>

\* an except block that leaves run() without a finally block
ImportExceptNoFinally(r) ==
    /\ calls[r].pc = "except"
    /\ calls' = [calls EXCEPT ![r].pc = IF calls[r].kind = "script"
                                        THEN "done" ELSE "exit"]
    /\ UNCHANGED << store, locals, tags, exercise_tags, reply, other,
                    conn_pool >>

\* except Exception: self.conn.rollback(); raise. The finally block runs
\* whether rollback() returns or raises
ImportExcept(r) ==
    /\ calls[r].pc = "except"
    /\ calls' = [calls EXCEPT ![r].pc = "finally"]
    /\ UNCHANGED << store, locals, tags, exercise_tags, reply, other,
                    conn_pool >>

\* finally: next(conn_gen) resumes get_db_conn after the yield, the with
\* block ends and StopIteration is swallowed
ImportFinally(r) ==
    /\ calls[r].pc = "finally"
    /\ conn_pool' = PutConn(conn_pool, calls[r].self_conn)
    /\ calls' = [calls EXCEPT ![r].self_conn = NoConn,
                              ![r].pc = IF calls[r].kind = "script"
                                        THEN "done" ELSE "exit"]
    /\ UNCHANGED << store, locals, tags, exercise_tags, reply, other >>

\* the end of the request of an endpoint: FastAPI resumes get_db_conn, or
\* throws the exception into it; either way the with block ends
EndpointExit(r) ==
    /\ calls[r].pc = "exit"
    /\ conn_pool' = PutConn(conn_pool, calls[r].conn)
    /\ calls' = [calls EXCEPT ![r].conn = NoConn, ![r].pc = "done"]
    /\ UNCHANGED << store, locals, tags, exercise_tags, reply, other >>

NextPool ==
    \E r \in Reqs :
       \/ Acquire(r)
       \/ Body(r)
       \/ ImportAcquire(r)
       \/ ImportTry(r)
       \/ ImportExcept(r)
       \/ ImportFinally(r)
       \/ EndpointExit(r)

SpecPool == InitPool /\ [][NextPool]_vars

\* ------------------------------------------------------------------------
\* The editors of an exercise: update_exercise and the auto-tagging of
\* tag_exercise_endpoint.
\* ------------------------------------------------------------------------

\* exercise.model_dump(exclude_unset=True): the fields that are set and
\* their values
UpdateData == [set : SUBSET {"status", "difficulty"}, status : {"READY"},
               difficulty : {7}]

\* UPDATE exercises SET key = value, ... WHERE id = exercise_id
UpdatedRow(row, update_data) ==
    [row EXCEPT !.status = IF "status" \in update_data.set
                           THEN update_data.status ELSE @,
                !.difficulty = IF "difficulty" \in update_data.set
                               THEN update_data.difficulty ELSE @]

\* PUT /exercises/{exercise_id}: 400 for no field; the 404 of an unknown id
\* is raised inside the try block and answered as 500
UpdateExercise ==
    /\ \E e \in 1..(Len(exercises) + 1) : \E update_data \in UpdateData :
          IF update_data.set = {}
          THEN /\ UNCHANGED exercises
               /\ reply' = [op |-> "update_exercise", status_code |-> 400,
                            count |-> 0]
          ELSE IF e \notin DOMAIN exercises
          THEN /\ UNCHANGED exercises
               /\ reply' = [op |-> "update_exercise", status_code |-> 500,
                            count |-> 0]
          ELSE /\ exercises' =
                     [exercises EXCEPT ![e] = UpdatedRow(@, update_data)]
               /\ reply' = [op |-> "update_exercise", status_code |-> 200,
                            count |-> 1]
    /\ calls' = NoCalls
    /\ UNCHANGED << variants, variant_exercises, locals, tags,
                    exercise_tags, other,
                    conn_pool >>

NextEdit ==
    \/ UpdateExercise
    \/ TagExerciseEndpoint

SpecEdit == InitTag /\ [][NextEdit]_vars

\* ------------------------------------------------------------------------
\* The selector on its own: every section of both templates, on pools of
\* every kind of row, for several difficulty ranges
\* ------------------------------------------------------------------------

\* the default range, the widest range, and an empty range
SelRanges == { <<3, 7>>, <<1, 10>>, <<7, 5>> }

\* exclude_tags of a direct call of generate_variant: None, or one tag key;
\* generate_variant hands it to the selector (line 143), which never reads
\* it
SelExcludeTags == { << >>, << "algebra" >> }

InitSel ==
    /\ exercises \in SmallPools(SelKinds)
    /\ variants = {}
    /\ variant_exercises = {}
    /\ tags = ExistingTags
    /\ exercise_tags = ExistingExerciseTags(exercises)
    /\ reply = NoReply
    /\ other = NoRun
    /\ calls = NoCalls
    /\ conn_pool = NoPool
    /\ request \in [exam_type : {"bacalaureat", "evaluare_nationala"},
                    difficulty_range : SelRanges,
                    exclude_tags : SelExcludeTags]
    /\ pc = "select"
    /\ structure = ResolveTemplate(request.exam_type).subjects
    /\ subject_idx \in DOMAIN structure
    /\ variant_id = 0
    /\ count_needed = 0
    /\ results = << >>
    /\ idx = 0
    /\ all_exercise_ids = 0
    /\ order_index = 0
    /\ total_points = NullInt
    /\ response = NoResponse

NextSel == SelectExercises

\* the selector and the summary on section definitions: every section of
\* both templates, and the same sections without the optional key
\* variants_per_problem, which both read with subject.get
Without(dict, key) == [k \in DOMAIN dict \ {key} |-> dict[k]]

TemplateSections ==
    { BacalaureatSubjects[i] : i \in DOMAIN BacalaureatSubjects } \cup
    { EvaluareNationalaSubjects[i] : i \in DOMAIN EvaluareNationalaSubjects }

SectionDefs ==
    TemplateSections \cup
    { Without(sec, "variants_per_problem") :
        sec \in { t \in TemplateSections : Get(t, "has_variants", FALSE) } }

InitSect ==
    /\ exercises \in PoolsUpTo(ConcKinds, MaxSectPool)
    /\ variants = {}
    /\ variant_exercises = {}
    /\ tags = ExistingTags
    /\ exercise_tags = ExistingExerciseTags(exercises)
    /\ reply = NoReply
    /\ other = NoRun
    /\ calls = NoCalls
    /\ conn_pool = NoPool
    /\ request \in [exam_type : SupportedExamTypes,
                    difficulty_range : {<<3, 7>>}]
    /\ pc = "select"
    /\ structure \in { << sec >> : sec \in SectionDefs }
    /\ subject_idx = 1
    /\ variant_id = 0
    /\ count_needed = 0
    /\ results = << >>
    /\ idx = 0
    /\ all_exercise_ids = 0
    /\ order_index = 0
    /\ total_points = NullInt
    /\ response = NoResponse

SpecSect == InitSect /\ [][NextSel]_vars

SpecSel == InitSel /\ [][NextSel]_vars

\* ------------------------------------------------------------------------
\* Properties
\* ------------------------------------------------------------------------

\* the rows stored for the variant the response names
GeneratedRows == RowsOf(variant_exercises, response.variant_id)

\* the exercises of the pool within the request's range and not archived
EligibleIds ==
    { i \in DOMAIN exercises :
        RelaxedMatch(exercises[i], request.difficulty_range) }

\* the section of the last selector call, once one has been made
SelectorCalled ==
    pc = "add" \/ (pc \in {"select", "update"} /\ subject_idx > 1)

LastSubject ==
    IF pc = "add" THEN structure[subject_idx] ELSE structure[subject_idx - 1]

\* C1: once generate_variant has failed on a data-store write, the store
\* holds none of the operation's writes: variants and variant_exercises are
\* what they were before the request.
C1_FailureLeavesNoWrites ==
    pc = "failed" =>
        /\ variants = ExistingVariants
        /\ variant_exercises = ExistingRows(exercises)

\* C2: when generate_variant has returned, the order_index values of the
\* rows of the generated variant are exactly 0..k-1, k the number of rows.
C2_OrderIndexContiguous ==
    pc = "done" =>
        { r.order_index : r \in GeneratedRows }
            = 0..(Cardinality(GeneratedRows) - 1)

\* C3: no two rows of variant_exercises have the same variant and the same
\* exercise, also after the selector returned an exercise for two sections.
C3_NoExerciseTwice ==
    \A r1 \in variant_exercises : \A r2 \in variant_exercises :
        (r1.variant_id = r2.variant_id /\ r1.exercise_id = r2.exercise_id)
            => r1 = r2

\* C3 witness: a returned run in which the selector gave an exercise that a
\* previous section had already placed (more ids appended than rows stored).
C3_Witness ==
    /\ pc = "done"
    /\ response.exercise_count > Cardinality(GeneratedRows)
    /\ Cardinality(GeneratedRows) > 0

\* C4: a request for an exam type other than bacalaureat and
\* evaluare_nationala ends as HTTP 400 with variants and variant_exercises
\* as they were before the request, and never reaches a write.
C4_UnsupportedExamTypeNoWrite ==
    (request.exam_type \notin {"bacalaureat", "evaluare_nationala"}
     /\ pc # "start") =>
        /\ pc = "rejected"
        /\ response.status_code = 400
        /\ variants = ExistingVariants
        /\ variant_exercises = ExistingRows(exercises)

\* C4 witness: a rejected request on a store that holds a variant and a row.
C4_Witness ==
    /\ pc = "rejected"
    /\ request.exam_type = "unknown_type"
    /\ variant_exercises # {}

\* C5: the exercise_count of the summary is the number of rows stored for
\* the returned variant.
C5_ExerciseCountIsRowCount ==
    pc = "done" => response.exercise_count = Cardinality(GeneratedRows)

\* C6: evaluare_nationala on a pool with exactly 4 eligible exercises
\* returns exercise_count = 4 and total_points = 60.
C6_UnderFillScenario ==
    (pc = "done" /\ request.exam_type = "evaluare_nationala"
     /\ Cardinality(EligibleIds) = 4) =>
        /\ response.status_code = 200
        /\ response.exercise_count = 4
        /\ response.total_points = 60

\* C7: evaluare_nationala on a pool with at least 9 eligible exercises of
\* difficulty in [3,7] places 9 exercises, with exercise_count = 9 and
\* total_points = 60.
C7_FullFillScenario ==
    (pc = "done" /\ request.exam_type = "evaluare_nationala"
     /\ request.difficulty_range = <<3, 7>>
     /\ Cardinality(EligibleIds) >= 9) =>
        /\ Cardinality(GeneratedRows) = 9
        /\ response.exercise_count = 9
        /\ response.total_points = 60

\* C8: on success the total_points returned and the total_points stored on
\* the variant are both the nominal total of the template, 90 for
\* bacalaureat and 60 for evaluare_nationala, whatever was placed.
C8_NominalTotalPoints ==
    pc = "done" =>
        LET nominal == IF request.exam_type = "bacalaureat" THEN 90 ELSE 60
        IN  /\ response.total_points = nominal
            /\ \E v \in variants : /\ v.id = response.variant_id
                                   /\ v.total_points = nominal

\* C8 witness: a returned bacalaureat run that placed no exercise.
C8_Witness ==
    /\ pc = "done"
    /\ request.exam_type = "bacalaureat"
    /\ GeneratedRows = {}
    /\ response.total_points = 90

\* C9: for a has_variants section of 2 problems, 3 sub-variants and 15
\* points per problem the selector is asked for 6 slots, and the section's
\* term of total_points is 30, however many ids the selector returned.
C9_SubVariantSection ==
    (SelectorCalled
     /\ Get(LastSubject, "has_variants", FALSE)
     /\ LastSubject.count = 2
     /\ Get(LastSubject, "variants_per_problem", 0) = 3
     /\ LastSubject.points_each = 15) =>
        /\ count_needed = 6
        /\ SubjectPoints(LastSubject) = 30

\* C9 witness: the loop over the ids of a has_variants section for which
\* the selector returned fewer than 6 ids.
C9_Witness ==
    /\ pc = "add"
    /\ Get(structure[subject_idx], "has_variants", FALSE)
    /\ Len(results) < 6
    /\ count_needed = 6

\* C10: the list returned by the selector has pairwise distinct ids and at
\* most count_needed of them, and returning it is not an error.
C10_SelectorDistinctAndBounded ==
    /\ \A i \in DOMAIN results : \A j \in DOMAIN results :
           results[i] = results[j] => i = j
    /\ Len(results) <= count_needed
    /\ pc \in {"select", "add", "update"}
    /\ response = NoResponse

\* C10 witness: a non-empty list shorter than the slot count, being
\* consumed by the caller.
C10_Witness ==
    /\ pc = "add"
    /\ Len(results) > 1
    /\ Len(results) < count_needed

\* the ids of the pool that meet every condition of the strict query for
\* the section of the last selector call
StrictIds ==
    { i \in DOMAIN exercises :
        /\ exercises[i].difficulty # NullInt
        /\ exercises[i].difficulty >= request.difficulty_range[1]
        /\ exercises[i].difficulty <= request.difficulty_range[2]
        /\ exercises[i].status # "ARCHIVED"
        /\ exercises[i].item_type \in {LastSubject.item_type, "exercitiu", NULL}
        /\ exercises[i].exam_type \in {request.exam_type, NULL} }

\* the ids of the pool within the difficulty range and not archived
InRangeIds ==
    { i \in DOMAIN exercises :
        /\ exercises[i].difficulty # NullInt
        /\ exercises[i].difficulty >= request.difficulty_range[1]
        /\ exercises[i].difficulty <= request.difficulty_range[2]
        /\ exercises[i].status # "ARCHIVED" }

\* C11: when the strict query has at least count_needed matches, the list
\* is returned to the loop and every id in it has a difficulty within the
\* range, is not archived, has the section's item_type or 'exercitiu' or
\* none, and has the requested exam_type or none.
C11_StrictResultEligible ==
    (count_needed > 0 /\ Cardinality(StrictIds) >= count_needed) =>
        /\ pc = "add"
        /\ \A i \in DOMAIN results : results[i] \in StrictIds

\* C11 witness: a strict result on a pool that also holds an exercise in
\* range and not archived that the strict conditions reject.
C11_Witness ==
    /\ pc = "add"
    /\ count_needed > 0
    /\ Cardinality(StrictIds) >= count_needed
    /\ InRangeIds \ StrictIds # {}

\* C12: when the strict query has fewer than count_needed matches, the
\* returned list has min(count_needed, number of exercises in range and not
\* archived) ids, all of them in range and not archived, and is not shorter
\* than the strict result.
C12_RelaxationFallback ==
    (count_needed > 0 /\ Cardinality(StrictIds) < count_needed) =>
        /\ Len(results) = Min(count_needed, Cardinality(InRangeIds))
        /\ \A i \in DOMAIN results : results[i] \in InRangeIds
        /\ Len(results) >= Cardinality(StrictIds)

\* C12 witness: a full fallback result, drawn from more exercises than
\* needed, with an id the strict conditions reject.
C12_Witness ==
    /\ pc = "add"
    /\ Cardinality(StrictIds) < count_needed
    /\ Len(results) = count_needed
    /\ Cardinality(InRangeIds) > count_needed
    /\ \E i \in DOMAIN results : results[i] \notin StrictIds

\* C13: no id returned by the selector belongs to an exercise that carries
\* a tag whose key is in exclude_tags.
C13_ExcludedTagsNotSelected ==
    \A i \in DOMAIN results :
        ~ \E et \in exercise_tags : \E t \in tags :
              /\ et.exercise_id = results[i]
              /\ et.tag_id = t.id
              /\ \E k \in DOMAIN request.exclude_tags :
                     request.exclude_tags[k] = t.key

\* the position in the template of the section a row names
SectionPos(r) ==
    CHOOSE i \in DOMAIN structure : structure[i].name = r.section_name

\* C14: the rows of the variant of the run are ordered by template section;
\* every pass of the inner loop writes at most the row of the current list
\* item, at the running counter and with the current section's name, then
\* moves the counter and the list position on by one; the selector call
\* between two sections leaves the counter and the rows alone.
C14_OrderFollowsSections ==
    /\ [](\A a \in RowsOf(variant_exercises, variant_id) :
            \A b \in RowsOf(variant_exercises, variant_id) :
               SectionPos(a) < SectionPos(b) => a.order_index < b.order_index)
    /\ [][(pc = "add" /\ pc' # "failed") =>
            /\ variant_exercises' \in
                 { variant_exercises,
                   variant_exercises \cup
                     { [variant_id   |-> variant_id,
                        exercise_id  |-> results[idx],
                        order_index  |-> order_index,
                        section_name |-> structure[subject_idx].name] } }
            /\ order_index' = order_index + 1
            /\ (pc' = "add" => (idx' = idx + 1 /\ results' = results))]_vars
    /\ [][pc = "select" =>
            /\ order_index' = order_index
            /\ variant_exercises' = variant_exercises]_vars

\* C14 witness: a returned run with rows in two sections.
C14_Witness ==
    /\ pc = "done"
    /\ \E a \in GeneratedRows : \E b \in GeneratedRows :
          a.section_name # b.section_name

\* C15: in the inner loop, the insert of an exercise that the variant
\* already holds aborts the run.
C15_DuplicateInsertAborts ==
    [][(/\ pc = "add"
        /\ \E r \in variant_exercises : /\ r.variant_id = variant_id
                                        /\ r.exercise_id = results[idx])
          => pc' = "failed"]_vars

\* C16: the committed tables, which are what a reader on another
\* connection sees, never hold a variant of the run with total_points unset.
C16_NoIntermediateStateVisible ==
    \A v \in variants \ ExistingVariants : v.total_points # NullInt

\* C18: a selector call that returns no id moves on to the next section (or
\* to step 4) without a write or a response; the request terminates; a
\* returned run has a stored variant and a summary, and on a pool without an
\* eligible exercise the summary has exercise_count = 0, no row is stored
\* and total_points is nominal.
C18_EmptySelectionNotFatal ==
    /\ [][(pc = "select" /\ pc' # "add") =>
            /\ pc' \in {"select", "update"}
            /\ response' = response
            /\ variants' = variants
            /\ variant_exercises' = variant_exercises]_vars
    /\ <>(pc \in {"done", "rejected"})
    /\ [](pc = "done" =>
            /\ response.status_code = 200
            /\ \E v \in variants : v.id = response.variant_id
            /\ (EligibleIds = {} =>
                  /\ response.exercise_count = 0
                  /\ GeneratedRows = {}
                  /\ response.total_points =
                       IF request.exam_type = "bacalaureat" THEN 90 ELSE 60))

\* C18 witness: a returned run on a pool whose exercises are all archived.
C18_Witness ==
    /\ pc = "done"
    /\ exercises # << >>
    /\ EligibleIds = {}
    /\ response.exercise_count = 0

\* the rows of a variant are ordered as the sections of `subjects` are
OrderedBySection(rows, subjects) ==
    \A a \in rows : \A b \in rows :
       \A i \in DOMAIN subjects : \A j \in DOMAIN subjects :
          (/\ subjects[i].name = a.section_name
           /\ subjects[j].name = b.section_name
           /\ i < j) => a.order_index < b.order_index

\* C17: with two requests interleaved, the two variants are different; a step
\* of one request removes no row, adds at most the row of its own current
\* list item, for its own variant, at its own counter, and leaves the rows of
\* the other request's variant as they are; in each variant the rows are
\* ordered by template section and hold no order_index twice.
C17_ConcurrentRunsIndependent ==
    /\ []((variant_id # 0 /\ other.variant_id # 0) =>
             variant_id # other.variant_id)
    /\ [](/\ OrderedBySection(RowsOf(variant_exercises, variant_id),
                              structure)
          /\ OrderedBySection(RowsOf(variant_exercises, other.variant_id),
                              other.structure)
          /\ \A a \in variant_exercises : \A b \in variant_exercises :
                (a.variant_id = b.variant_id /\ a.order_index = b.order_index)
                   => a = b)
    /\ [][other' = other =>
            /\ variant_exercises \subseteq variant_exercises'
            /\ \A r \in variant_exercises' \ variant_exercises :
                  r = [variant_id   |-> variant_id,
                       exercise_id  |-> results[idx],
                       order_index  |-> order_index,
                       section_name |-> structure[subject_idx].name]
            /\ RowsOf(variant_exercises', other.variant_id) =
                  RowsOf(variant_exercises, other.variant_id)]_vars
    /\ [][other' # other =>
            /\ variant_exercises \subseteq variant_exercises'
            /\ \A r \in variant_exercises' \ variant_exercises :
                  r = [variant_id   |-> other.variant_id,
                       exercise_id  |-> other.results[other.idx],
                       order_index  |-> other.order_index,
                       section_name |->
                          other.structure[other.subject_idx].name]
            /\ RowsOf(variant_exercises', variant_id) =
                  RowsOf(variant_exercises, variant_id)]_vars

\* C17 witness: both requests are inside their inner loops, each variant
\* holds a row already, and the two variants share an exercise.
C17_Witness ==
    /\ pc = "add"
    /\ other.pc = "add"
    /\ \E a \in RowsOf(variant_exercises, variant_id) :
         \E b \in RowsOf(variant_exercises, other.variant_id) :
            a.exercise_id = b.exercise_id

\* C19: between requests, the order_index values of every variant's rows
\* are 0..k-1 for its k rows.
C19_OrderIndexUniqueContiguous ==
    Quiet =>
       \A v \in variants :
          { r.order_index : r \in RowsOf(variant_exercises, v.id) } =
             0..(Cardinality(RowsOf(variant_exercises, v.id)) - 1)

\* C20: when add_exercises_to_variant or remove_exercise_from_variant
\* leaves a variant without exercises, the variant does not keep a positive
\* total_points.
C20_TotalPointsFollowsMembership ==
    [][Quiet =>
         \A v \in variants :
            (/\ RowsOf(variant_exercises, v.id) # {}
             /\ RowsOf(variant_exercises', v.id) = {})
               => \A w \in variants' :
                     w.id = v.id => w.total_points \in {NullInt, 0}]_vars

C30_RepeatedExerciseLeavesRow ==
    [][(/\ pc = "add"
        /\ \E r \in variant_exercises : /\ r.variant_id = variant_id
                                        /\ r.exercise_id = results[idx])
          => variant_exercises' = variant_exercises]_vars

\* C30 witness: a returned run that counted more selections than it stored
\* rows, so a pass of the loop met an exercise placed earlier.
C30_Witness ==
    /\ pc = "done"
    /\ GeneratedRows # {}
    /\ response.exercise_count > Cardinality(GeneratedRows)

\* C21: no row of variant_exercises names a variant or an exercise that does
\* not exist; a step that deletes a variant leaves no row of it, keeps every
\* exercise and the rows of the other variants; a step that deletes an
\* exercise leaves no row of it, keeps every variant and every other
\* exercise.
C21_OwnershipByCascade ==
    /\ [](\A r \in variant_exercises :
             /\ \E v \in variants : v.id = r.variant_id
             /\ r.exercise_id \in DOMAIN exercises)
    /\ [][variants' # variants =>
            /\ exercises' = exercises
            /\ \A v \in variants \ variants' :
                  variant_exercises' =
                     variant_exercises \ RowsOf(variant_exercises, v.id)]_vars
    /\ [][DOMAIN exercises' # DOMAIN exercises =>
            /\ variants' = variants
            /\ \A e \in DOMAIN exercises' : exercises'[e] = exercises[e]
            /\ \A e \in DOMAIN exercises \ DOMAIN exercises' :
                  variant_exercises' =
                     { r \in variant_exercises : r.exercise_id # e }]_vars

\* C21 witness: a variant has just been deleted while the other variant
\* and an exercise of the pool are still there.
C21_Witness ==
    /\ reply.op = "delete_variant"
    /\ reply.status_code = 204
    /\ variants # {}
    /\ DOMAIN exercises # {}

\* C27: delete_variant, delete_exercise and remove_exercise_from_variant
\* answer 404 when the statement found no row to delete.
C27_NotFoundIs404 ==
    (/\ reply.op \in {"delete_variant", "delete_exercise", "remove"}
     /\ reply.count = 0) => reply.status_code = 404

\* the exercises of a variant in every order
PermutationsOf(ids) ==
    { p \in [1..Cardinality(ids) -> ids] :
        \A i \in DOMAIN p : \A j \in DOMAIN p : p[i] = p[j] => i = j }

\* C26: between requests, on a variant whose order_index values are 0..k-1,
\* reorder_variant_exercises succeeds for every permutation of the
\* variant's exercises and gives each exercise its position in the list.
C26_ReorderAnyPermutation ==
    Quiet =>
      \A v \in variants :
        LET rows == RowsOf(variant_exercises, v.id)
        IN  { r.order_index : r \in rows } = 0..(Cardinality(rows) - 1) =>
              \A p \in PermutationsOf({ r.exercise_id : r \in rows }) :
                 LET res == ReorderAll(variant_exercises, v.id, p, 0)
                 IN  /\ res.ok
                     /\ \A i \in DOMAIN p :
                           \E r \in RowsOf(res.table, v.id) :
                              /\ r.exercise_id = p[i]
                              /\ r.order_index = i - 1

C22_OneRowPerTagAndLink ==
    /\ [](/\ \A a \in tags : \A b \in tags :
               (a.namespace = b.namespace /\ a.key = b.key) => a = b
          /\ \A a \in exercise_tags : \A b \in exercise_tags :
               (a.exercise_id = b.exercise_id /\ a.tag_id = b.tag_id)
                  => a = b)
    /\ [][/\ \A l \in exercise_tags :
               Cardinality({ m \in exercise_tags' :
                               /\ m.exercise_id = l.exercise_id
                               /\ m.tag_id = l.tag_id }) = 1
          /\ \A t \in tags : t \in tags']_vars

\* C22 witness: a tag path has answered for a tag that was linked already,
\* and its link carries the new weight.
C22_Witness ==
    /\ reply.op \in {"tag_exercise", "import_json"}
    /\ reply.count > 0
    /\ \E l \in exercise_tags :
          /\ l.weight = 100
          /\ \E t \in ExistingTags : t.id = l.tag_id
          /\ l.exercise_id \in
                { m.exercise_id : m \in ExistingExerciseTags(exercises) }

\* C23: when a path applies a tag to an exercise that has it already, the
\* association carries the weight and the confidence the path supplies
\* (0.8 for tag_exercise_endpoint, 1.0 for _save_structured_exercises, the
\* file's value for import_exercise_tags).
C23_ReapplyUpdatesWeightAndConfidence ==
    [][\A k \in DOMAIN calls' :
         LET c == calls'[k] IN
         \A i \in DOMAIN c.tags : \A l \in exercise_tags :
            (/\ l.exercise_id = c.exercise_id
             /\ \E t \in tags : /\ t.id = l.tag_id
                                /\ t.namespace = c.tags[i].namespace
                                /\ t.key = c.tags[i].key
             /\ \A j \in DOMAIN c.tags :
                   (j > i) => c.tags[j].key # c.tags[i].key)
               => \E m \in exercise_tags' :
                     /\ m.exercise_id = l.exercise_id
                     /\ m.tag_id = l.tag_id
                     /\ m.weight = c.tags[i].weight
                     /\ m.confidence = SuppliedConfidence(c.op, c.tags[i])
      ]_vars

\* C24: an exercise whose status is ARCHIVED is immutable: no step changes
\* its fields or its tag associations.
C24_ArchivedIsImmutable ==
    [][\A e \in DOMAIN exercises :
          exercises[e].status = "ARCHIVED"
             => /\ e \in DOMAIN exercises'
                /\ exercises'[e] = exercises[e]
                /\ { l \in exercise_tags' : l.exercise_id = e }
                      = { l \in exercise_tags : l.exercise_id = e }]_vars

\* the connections a request holds
Held(r) == { calls[r].conn, calls[r].self_conn } \ { NoConn }

====
